---- MODULE Spec2Model ----
(***************************************************************************)
(* Package Optimizer: the catalog constructor (NewOptimizer) and the       *)
(* dynamic-programming solver (Optimizer.Optimize / findOptimalSolution)   *)
(* of internal/domain/optimizer.go, modelled as a state machine.  One      *)
(* caller owns a size list, constructs an optimizer from it and then calls *)
(* Optimize any number of times; the table fill and the final scan of      *)
(* findOptimalSolution advance one loop iteration per step.                *)
(***************************************************************************)
EXTENDS Integers, Sequences, FiniteSets, TLC

\* ------------------------------------------------------------------ bounds
MaxSize == 4      \* largest package size a caller configures
MaxLen  == 3      \* longest size list a caller configures
MaxQty  == 6      \* largest quantity a caller requests

\* the table-fill specification: larger catalogs, sorted, smaller quantities
MaxTableSize == 6 \* largest package size
MaxTableLen  == 4 \* longest catalog
MaxTableQty  == 4 \* largest quantity

\* the specifications with a second goroutine, a handler or a writing caller
MaxSmallQty == 2  \* largest quantity requested there

\* configuration loading
MaxEnvLen == 4    \* longest PACKAGE_SIZES value

SizeValues == (-1)..MaxSize
Quantities == (-1)..MaxQty

RECURSIVE SeqsUpTo(_, _)
SeqsUpTo(S, n) ==
    IF n = 0 THEN {<<>>}
    ELSE LET shorter == SeqsUpTo(S, n - 1)
         IN  shorter \cup {Append(q, x) : q \in {r \in shorter : Len(r) = n - 1}, x \in S}

Inputs == SeqsUpTo(SizeValues, MaxLen)

\* ------------------------------------------------------------ Go values
ErrNil == "nil"
ErrNegative == "quantity must be non-negative"

PanicNone == "none"
PanicEmpty == "package sizes cannot be empty"
PanicNonPositive == "package sizes must be positive"

\* map[string]int: a nil map and an empty map made by make() are different values
NilMap == [isNil |-> TRUE, entries |-> <<>>]
MakeMap == [isNil |-> FALSE, entries |-> <<>>]

\* m[key] = value
MapPut(m, key, value) ==
    [isNil |-> FALSE,
     entries |-> [x \in (DOMAIN m.entries) \cup {key} |->
                     IF x = key THEN value ELSE m.entries[x]]]

\* *OptimizationResult: nil, or a pointer to a struct
NilResult == [isNil |-> TRUE, Requested |-> 0, TotalDelivered |-> 0,
              OverDelivery |-> 0, Packages |-> NilMap]

OptimizationResult(requested, totalDelivered, overDelivery, packages) ==
    [isNil |-> FALSE, Requested |-> requested, TotalDelivered |-> totalDelivered,
     OverDelivery |-> overDelivery, Packages |-> packages]

PackageCount(size, count) == [Size |-> size, Count |-> count]

\* *Optimizer: nil until NewOptimizer returns
NilOptimizer == [isNil |-> TRUE, packageSizes |-> <<>>]

\* fmt.Sprintf("%d", n): the decimal digits of n, most significant first
DigitChar == <<"0", "1", "2", "3", "4", "5", "6", "7", "8", "9">>

RECURSIVE FormatNat(_)
FormatNat(n) ==
    IF n < 10 THEN <<DigitChar[n + 1]>>
    ELSE Append(FormatNat(n \div 10), DigitChar[(n % 10) + 1])

Sprintf_d(n) == IF n < 0 THEN <<"-">> \o FormatNat(0 - n) ELSE FormatNat(n)

max(a, b) == IF a > b THEN a ELSE b

\* ------------------------------------------------------------ NewOptimizer
\* mutant: the sort.Reverse wrapper dropped, an ascending sort
RECURSIVE InsertDesc_Ascending(_, _)
InsertDesc_Ascending(s, x) ==
    IF s = <<>> THEN <<x>>
    ELSE IF x <= Head(s) THEN <<x>> \o s
    ELSE <<Head(s)>> \o InsertDesc_Ascending(Tail(s), x)

\* sort.Sort(sort.Reverse(sort.IntSlice(sizes))): descending insertion
RECURSIVE InsertDesc(_, _)
InsertDesc(s, x) ==
    IF s = <<>> THEN <<x>>
    ELSE IF x >= Head(s) THEN <<x>> \o s
    ELSE <<Head(s)>> \o InsertDesc(Tail(s), x)

RECURSIVE SortDesc(_)
SortDesc(s) ==
    IF s = <<>> THEN <<>>
    ELSE InsertDesc(SortDesc(Tail(s)), Head(s))

\* mutant: the positivity test written as size < 0
ValidatePackageSizes_AllowsZero(sizes) ==
    IF Len(sizes) = 0 THEN PanicEmpty
    ELSE IF \E j \in 1..Len(sizes) : sizes[j] < 0 THEN PanicNonPositive
    ELSE PanicNone

\* the validation of lines 19-28: which panic, if any, the input raises
ValidatePackageSizes(sizes) ==
    IF Len(sizes) = 0 THEN PanicEmpty
    ELSE IF \E j \in 1..Len(sizes) : sizes[j] <= 0 THEN PanicNonPositive
    ELSE PanicNone

VARIABLES
    input,            \* the caller's slice passed to NewOptimizer
    optimizer,        \* the *Optimizer the caller holds
    panicked,         \* the panic raised by NewOptimizer, if any
    pc,               \* position of the Optimize call: idle, fill, scan, done
    quantity,         \* argument of the Optimize call
    maxQuantity,      \* findOptimalSolution: quantity + maxPackageSize
    dp,               \* findOptimalSolution: dp table
    packageCounts,    \* findOptimalSolution: breakdown per table entry
    i,                \* loop variable of the fill loop, then of the scan loop
    k,                \* index into o.packageSizes of the inner range loop
    bestQuantity,     \* findOptimalSolution: scan result so far
    bestOverDelivery, \* findOptimalSolution: scan result so far
    result,           \* return value of Optimize
    err,              \* error value of Optimize
    saved,            \* a response the caller kept from an earlier call
    other,            \* the locals of a second goroutine running Optimize
    request,          \* the HTTP request the handler is serving
    response,         \* the HTTP response the handler returned
    environ,          \* the value of the PACKAGE_SIZES environment variable
    cfg               \* what config.Load returned to main

vars == <<input, optimizer, panicked, pc, quantity, maxQuantity, dp, packageCounts,
          i, k, bestQuantity, bestOverDelivery, result, err, saved,
          other, request, response, environ, cfg>>

solverVars == <<maxQuantity, dp, packageCounts, i, k, bestQuantity, bestOverDelivery>>

NoSaved == [valid |-> FALSE, quantity |-> 0, result |-> NilResult, err |-> ErrNil]

\* what the single-caller specification leaves alone
\* main before config.Load has returned
NoConfig == [loaded |-> FALSE, isNil |-> TRUE, PackageSizes |-> <<>>, err |-> ErrNil]

extraVars == <<other, request, response, environ, cfg>>

\* a goroutine that is not inside Optimize
IdleCall ==
    [pc |-> "idle", quantity |-> 0, maxQuantity |-> 0, dp |-> <<>>,
     packageCounts |-> <<>>, i |-> 0, k |-> 0, bestQuantity |-> 0,
     bestOverDelivery |-> 0, result |-> NilResult, err |-> ErrNil]

\* no request being served, no response written
NoRequest == [route |-> "none", qty |-> <<>>]
NoResponse == [status |-> 0, result |-> NilResult, sizes |-> <<>>, message |-> ""]

Init ==
    /\ input \in Inputs
    /\ optimizer = NilOptimizer
    /\ panicked = PanicNone
    /\ pc = "idle"
    /\ quantity = 0
    /\ maxQuantity = 0
    /\ dp = <<>>
    /\ packageCounts = <<>>
    /\ i = 0
    /\ k = 0
    /\ bestQuantity = 0
    /\ bestOverDelivery = 0
    /\ result = NilResult
    /\ err = ErrNil
    /\ saved = NoSaved
    /\ other = IdleCall
    /\ request = NoRequest
    /\ response = NoResponse
    /\ environ = <<>>
    /\ cfg = NoConfig

\* mutant: repeated sizes collapsed at construction
RECURSIVE Dedup(_)
Dedup(s) ==
    IF s = <<>> THEN <<>>
    ELSE IF \E j \in 2..Len(s) : s[j] = Head(s) THEN Dedup(Tail(s))
    ELSE <<Head(s)>> \o Dedup(Tail(s))

MakeOptimizer_Dedup(sizes) == [isNil |-> FALSE, packageSizes |-> SortDesc(Dedup(sizes))]

\* the optimizer NewOptimizer returns for a valid input
MakeOptimizer(sizes) == [isNil |-> FALSE, packageSizes |-> SortDesc(sizes)]

\* mutant: the caller's slice is sorted in place instead of a copy
NewOptimizer_SortsInPlace ==
    /\ optimizer.isNil
    /\ panicked = PanicNone
    /\ IF ValidatePackageSizes(input) # PanicNone
       THEN /\ panicked' = ValidatePackageSizes(input)
            /\ UNCHANGED <<optimizer, input>>
       ELSE /\ optimizer' = MakeOptimizer(input)
            /\ input' = SortDesc(input)
            /\ UNCHANGED panicked
    /\ UNCHANGED <<pc, quantity, solverVars, result, err, saved>>
    /\ UNCHANGED extraVars

NewOptimizer ==
    /\ optimizer.isNil
    /\ panicked = PanicNone
    /\ IF ValidatePackageSizes(input) # PanicNone
       THEN /\ panicked' = ValidatePackageSizes(input)
            /\ UNCHANGED optimizer
       ELSE /\ optimizer' = MakeOptimizer(input)
            /\ UNCHANGED panicked
    /\ UNCHANGED <<input, pc, quantity, solverVars, result, err, saved>>
    /\ UNCHANGED extraVars

\* ---------------------------------------------------- findOptimalSolution
\* mutant: the table left zeroed as make() returns it, no sentinel written
NewDP_NoSentinel(mq) == [n \in 0..mq |-> 0]

\* dp := make([]int, maxQuantity+1), every entry set to the sentinel, dp[0] = 0
NewDP(mq) == [n \in 0..mq |-> IF n = 0 THEN 0 ELSE mq + 1]

\* packageCounts := make([][]PackageCount, maxQuantity+1); a nil slice has length 0
NewPackageCounts(mq) == [n \in 0..mq |-> <<>>]

remaining(ii, packageSize) == ii - packageSize

newOverDelivery(ii, q) == max(0, ii - q)

totalOverDelivery(ii, packageSize) ==
    dp[remaining(ii, packageSize)] + newOverDelivery(ii, quantity)

\* dp[remaining] != maxQuantity+1
Reachable(n) == dp[n] # maxQuantity + 1

\* the update condition of lines 144-145
IsBetter(ii, packageSize) ==
    \/ totalOverDelivery(ii, packageSize) < dp[ii]
    \/ /\ totalOverDelivery(ii, packageSize) = dp[ii]
       /\ Len(packageCounts[remaining(ii, packageSize)]) + 1 < Len(packageCounts[ii])

\* whether the inner loop body stores a new entry for ii with this package size
ShouldUpdate(ii, packageSize) ==
    /\ packageSize <= ii
    /\ Reachable(remaining(ii, packageSize))
    /\ IsBetter(ii, packageSize)

\* mutant: the search for an existing entry of that size is skipped
AddPackage_AlwaysAppend(pkgs, packageSize) ==
    Append(pkgs, PackageCount(packageSize, 1))

\* lines 151-166: copy the breakdown, then increment the first entry of that
\* size or append a new one
AddPackage(pkgs, packageSize) ==
    IF \E j \in 1..Len(pkgs) : pkgs[j].Size = packageSize
    THEN LET first == CHOOSE j \in 1..Len(pkgs) :
                         /\ pkgs[j].Size = packageSize
                         /\ \A h \in 1..(j - 1) : pkgs[h].Size # packageSize
         IN  [pkgs EXCEPT ![first] = PackageCount(packageSize, pkgs[first].Count + 1)]
    ELSE Append(pkgs, PackageCount(packageSize, 1))

\* mutant: the first comparison of the scan inverted
ScanBetter_Inverted(ii) ==
    \/ dp[ii] > bestOverDelivery
    \/ /\ dp[ii] = bestOverDelivery
       /\ Len(packageCounts[ii]) < Len(packageCounts[bestQuantity])

\* the scan condition of lines 184-185
ScanBetter(ii) ==
    \/ dp[ii] < bestOverDelivery
    \/ /\ dp[ii] = bestOverDelivery
       /\ Len(packageCounts[ii]) < Len(packageCounts[bestQuantity])

\* lines 73-77: the solution's breakdown as a map keyed by the decimal size
RECURSIVE ConvertPackages(_, _)
ConvertPackages(m, pkgs) ==
    IF pkgs = <<>> THEN m
    ELSE ConvertPackages(
             IF Head(pkgs).Count > 0
             THEN MapPut(m, Sprintf_d(Head(pkgs).Size), Head(pkgs).Count)
             ELSE m,
             Tail(pkgs))

\* mutant: the over-delivery subtraction with its operands swapped
BuildResult_SwappedDifference(q, totalDelivered, pkgs) ==
    OptimizationResult(q, totalDelivered, q - totalDelivered,
                       ConvertPackages(MakeMap, pkgs))

\* lines 65-79: the public result of a solution
BuildResult(q, totalDelivered, pkgs) ==
    OptimizationResult(q, totalDelivered, totalDelivered - q,
                       ConvertPackages(MakeMap, pkgs))

\* mutant: the zero result built without make(), its Packages left nil
ZeroResult_NilMap == OptimizationResult(0, 0, 0, NilMap)

\* lines 53-58
ZeroResult == OptimizationResult(0, 0, 0, MakeMap)

\* ---------------------------------------------------------------- Optimize
\* mutant: the error is returned together with a non-nil result
OptimizeNegative_PartialResult ==
    /\ ~optimizer.isNil
    /\ pc = "idle"
    /\ \E q \in Quantities :
        /\ q < 0
        /\ quantity' = q
    /\ result' = OptimizationResult(quantity', 0, 0, MakeMap)
    /\ err' = ErrNegative
    /\ pc' = "done"
    /\ UNCHANGED <<input, optimizer, panicked, solverVars, saved>>
    /\ UNCHANGED extraVars

\* Optimize(q) with q < 0: lines 47-49
OptimizeNegative ==
    /\ ~optimizer.isNil
    /\ pc = "idle"
    /\ \E q \in Quantities :
        /\ q < 0
        /\ quantity' = q
    /\ result' = NilResult
    /\ err' = ErrNegative
    /\ pc' = "done"
    /\ UNCHANGED <<input, optimizer, panicked, solverVars, saved>>
    /\ UNCHANGED extraVars

\* Optimize(0): lines 52-59
OptimizeZero ==
    /\ ~optimizer.isNil
    /\ pc = "idle"
    /\ 0 \in Quantities
    /\ quantity' = 0
    /\ result' = ZeroResult
    /\ err' = ErrNil
    /\ pc' = "done"
    /\ UNCHANGED <<input, optimizer, panicked, solverVars, saved>>
    /\ UNCHANGED extraVars

\* mutant: the call reverses the shared catalog slice in place after reading
\* the maximum size
ReverseSeq(s) == [j \in 1..Len(s) |-> s[Len(s) + 1 - j]]

OptimizeStart_ReversesCatalog ==
    /\ ~optimizer.isNil
    /\ pc = "idle"
    /\ \E q \in Quantities :
        /\ q > 0
        /\ quantity' = q
        /\ maxQuantity' = q + optimizer.packageSizes[1]
    /\ optimizer' = [optimizer EXCEPT !.packageSizes = ReverseSeq(optimizer.packageSizes)]
    /\ dp' = NewDP(maxQuantity')
    /\ packageCounts' = NewPackageCounts(maxQuantity')
    /\ i' = 1
    /\ k' = 1
    /\ pc' = "fill"
    /\ UNCHANGED <<input, panicked, bestQuantity, bestOverDelivery,
                   result, err, saved>>
    /\ UNCHANGED extraVars

\* Optimize(q) with q > 0 up to the first iteration of the fill loop:
\* lines 62, 108-126
OptimizeStart ==
    /\ ~optimizer.isNil
    /\ pc = "idle"
    /\ \E q \in Quantities :
        /\ q > 0
        /\ quantity' = q
        /\ maxQuantity' = q + optimizer.packageSizes[1]
    /\ dp' = NewDP(maxQuantity')
    /\ packageCounts' = NewPackageCounts(maxQuantity')
    /\ i' = 1
    /\ k' = 1
    /\ pc' = "fill"
    /\ UNCHANGED <<input, optimizer, panicked, bestQuantity, bestOverDelivery,
                   result, err, saved>>
    /\ UNCHANGED extraVars

\* mutant: the copy of lines 151-152 omitted, the new breakdown shares its
\* array with the breakdown of the remaining quantity
FillStep_AliasedBreakdown ==
    /\ pc = "fill"
    /\ i <= maxQuantity
    /\ LET packageSize == optimizer.packageSizes[k]
           rem == remaining(i, packageSize)
       IN  IF ShouldUpdate(i, packageSize)
           THEN /\ dp' = [dp EXCEPT ![i] = totalOverDelivery(i, packageSize)]
                /\ packageCounts' =
                      IF \E j \in 1..Len(packageCounts[rem]) :
                            packageCounts[rem][j].Size = packageSize
                      THEN [packageCounts EXCEPT
                               ![i] = AddPackage(packageCounts[rem], packageSize),
                               ![rem] = AddPackage(packageCounts[rem], packageSize)]
                      ELSE [packageCounts EXCEPT
                               ![i] = AddPackage(packageCounts[rem], packageSize)]
           ELSE UNCHANGED <<dp, packageCounts>>
    /\ IF k < Len(optimizer.packageSizes)
       THEN /\ k' = k + 1
            /\ i' = i
       ELSE /\ k' = 1
            /\ i' = i + 1
    /\ UNCHANGED <<input, optimizer, panicked, pc, quantity, maxQuantity,
                   bestQuantity, bestOverDelivery, result, err, saved>>
    /\ UNCHANGED extraVars

\* one iteration of the inner loop (lines 128-173) for entry i and the k-th size
FillStep ==
    /\ pc = "fill"
    /\ i <= maxQuantity
    /\ LET packageSize == optimizer.packageSizes[k]
       IN  IF ShouldUpdate(i, packageSize)
           THEN /\ dp' = [dp EXCEPT ![i] = totalOverDelivery(i, packageSize)]
                /\ packageCounts' =
                      [packageCounts EXCEPT ![i] =
                          AddPackage(packageCounts[remaining(i, packageSize)], packageSize)]
           ELSE UNCHANGED <<dp, packageCounts>>
    /\ IF k < Len(optimizer.packageSizes)
       THEN /\ k' = k + 1
            /\ i' = i
       ELSE /\ k' = 1
            /\ i' = i + 1
    /\ UNCHANGED <<input, optimizer, panicked, pc, quantity, maxQuantity,
                   bestQuantity, bestOverDelivery, result, err, saved>>
    /\ UNCHANGED extraVars

\* the fill loop ends; lines 178-182
BeginScan ==
    /\ pc = "fill"
    /\ i > maxQuantity
    /\ bestQuantity' = quantity
    /\ bestOverDelivery' = dp[quantity]
    /\ i' = quantity + 1
    /\ pc' = "scan"
    /\ UNCHANGED <<input, optimizer, panicked, quantity, maxQuantity, dp,
                   packageCounts, k, result, err, saved>>
    /\ UNCHANGED extraVars

\* one iteration of the scan loop: lines 182-189
ScanStep ==
    /\ pc = "scan"
    /\ i <= maxQuantity
    /\ IF ScanBetter(i)
       THEN /\ bestQuantity' = i
            /\ bestOverDelivery' = dp[i]
       ELSE UNCHANGED <<bestQuantity, bestOverDelivery>>
    /\ i' = i + 1
    /\ UNCHANGED <<input, optimizer, panicked, pc, quantity, maxQuantity, dp,
                   packageCounts, k, result, err, saved>>
    /\ UNCHANGED extraVars

\* the scan loop ends: findOptimalSolution returns (lines 192-195) and Optimize
\* converts the solution (lines 65-79)
Finish ==
    /\ pc = "scan"
    /\ i > maxQuantity
    /\ result' = BuildResult(quantity, bestQuantity, packageCounts[bestQuantity])
    /\ err' = ErrNil
    /\ pc' = "done"
    /\ UNCHANGED <<input, optimizer, panicked, quantity, solverVars, saved>>
    /\ UNCHANGED extraVars

\* the caller takes (result, err) and may keep the response for later
\* comparison; the locals of the finished call go out of scope
Return ==
    /\ pc = "done"
    /\ pc' = "idle"
    /\ \E keep \in BOOLEAN :
        saved' = IF keep
                 THEN [valid |-> TRUE, quantity |-> quantity, result |-> result, err |-> err]
                 ELSE saved
    /\ quantity' = 0
    /\ maxQuantity' = 0
    /\ dp' = <<>>
    /\ packageCounts' = <<>>
    /\ i' = 0
    /\ k' = 0
    /\ bestQuantity' = 0
    /\ bestOverDelivery' = 0
    /\ result' = NilResult
    /\ err' = ErrNil
    /\ UNCHANGED <<input, optimizer, panicked>>
    /\ UNCHANGED extraVars

Next ==
    \/ NewOptimizer
    \/ OptimizeNegative
    \/ OptimizeZero
    \/ OptimizeStart
    \/ FillStep
    \/ BeginScan
    \/ ScanStep
    \/ Finish
    \/ Return

Spec == Init /\ [][Next]_vars

\* ------------------------------------------------ the table-fill specification
\* An optimizer already constructed from a descending size list; one caller
\* runs findOptimalSolution for positive quantities.
TableInputs ==
    {s \in SeqsUpTo(1..MaxTableSize, MaxTableLen) : s # <<>> /\ s = SortDesc(s)}

TableInit ==
    /\ input \in TableInputs
    /\ optimizer = MakeOptimizer(input)
    /\ panicked = PanicNone
    /\ pc = "idle"
    /\ quantity = 0
    /\ maxQuantity = 0
    /\ dp = <<>>
    /\ packageCounts = <<>>
    /\ i = 0
    /\ k = 0
    /\ bestQuantity = 0
    /\ bestOverDelivery = 0
    /\ result = NilResult
    /\ err = ErrNil
    /\ saved = NoSaved
    /\ other = IdleCall
    /\ request = NoRequest
    /\ response = NoResponse
    /\ environ = <<>>
    /\ cfg = NoConfig

TableOptimize ==
    /\ OptimizeStart
    /\ quantity' <= MaxTableQty

TableReturn ==
    /\ Return
    /\ saved' = saved

TableNext ==
    \/ TableOptimize
    \/ FillStep
    \/ BeginScan
    \/ ScanStep
    \/ Finish
    \/ TableReturn

SpecTable == TableInit /\ [][TableNext]_vars

\* ------------------------------------------ a second goroutine in Optimize
\* Optimize run by a goroutine whose locals are the record c: the state of the
\* call after lines 45-62 and 108-126
CallEnter(q, sizes) ==
    IF q < 0
    THEN [IdleCall EXCEPT !.pc = "done", !.quantity = q, !.err = ErrNegative]
    ELSE IF q = 0
    THEN [IdleCall EXCEPT !.pc = "done", !.result = ZeroResult]
    ELSE [IdleCall EXCEPT !.pc = "fill", !.quantity = q,
                          !.maxQuantity = q + sizes[1],
                          !.dp = NewDP(q + sizes[1]),
                          !.packageCounts = NewPackageCounts(q + sizes[1]),
                          !.i = 1, !.k = 1]

\* one iteration of the inner fill loop (lines 128-173) on the locals c
CallFill(c, sizes) ==
    LET packageSize == sizes[c.k]
        rem == c.i - packageSize
        total == c.dp[rem] + max(0, c.i - c.quantity)
        update ==
            /\ packageSize <= c.i
            /\ c.dp[rem] # c.maxQuantity + 1
            /\ \/ total < c.dp[c.i]
               \/ /\ total = c.dp[c.i]
                  /\ Len(c.packageCounts[rem]) + 1 < Len(c.packageCounts[c.i])
        stored ==
            IF update
            THEN [c EXCEPT !.dp[c.i] = total,
                           !.packageCounts[c.i] = AddPackage(c.packageCounts[rem], packageSize)]
            ELSE c
    IN  IF c.k < Len(sizes)
        THEN [stored EXCEPT !.k = c.k + 1]
        ELSE [stored EXCEPT !.k = 1, !.i = c.i + 1]

\* one iteration of the scan loop (lines 182-189) on the locals c
CallScan(c) ==
    LET better ==
            \/ c.dp[c.i] < c.bestOverDelivery
            \/ /\ c.dp[c.i] = c.bestOverDelivery
               /\ Len(c.packageCounts[c.i]) < Len(c.packageCounts[c.bestQuantity])
    IN  IF better
        THEN [c EXCEPT !.bestQuantity = c.i, !.bestOverDelivery = c.dp[c.i], !.i = c.i + 1]
        ELSE [c EXCEPT !.i = c.i + 1]

\* the next step of a call in progress
CallAdvance(c, sizes) ==
    IF c.pc = "fill" /\ c.i <= c.maxQuantity THEN CallFill(c, sizes)
    ELSE IF c.pc = "fill"
    THEN [c EXCEPT !.pc = "scan", !.bestQuantity = c.quantity,
                   !.bestOverDelivery = c.dp[c.quantity], !.i = c.quantity + 1]
    ELSE IF c.i <= c.maxQuantity THEN CallScan(c)
    ELSE [c EXCEPT !.pc = "done",
                   !.result = BuildResult(c.quantity, c.bestQuantity,
                                          c.packageCounts[c.bestQuantity]),
                   !.err = ErrNil]

\* a call run from entry to return with nothing else running
RECURSIVE RunAlone(_, _)
RunAlone(c, sizes) ==
    IF c.pc = "done" THEN c ELSE RunAlone(CallAdvance(c, sizes), sizes)

OptimizeAlone(q, sizes) ==
    LET c == RunAlone(CallEnter(q, sizes), sizes)
    IN  [result |-> c.result, err |-> c.err]

SmallQuantities == (-1)..MaxSmallQty

ConcInit ==
    /\ input \in {s \in Inputs : ValidatePackageSizes(s) = PanicNone /\ s = SortDesc(s)}
    /\ optimizer = MakeOptimizer(input)
    /\ panicked = PanicNone
    /\ pc = "idle"
    /\ quantity = 0
    /\ maxQuantity = 0
    /\ dp = <<>>
    /\ packageCounts = <<>>
    /\ i = 0
    /\ k = 0
    /\ bestQuantity = 0
    /\ bestOverDelivery = 0
    /\ result = NilResult
    /\ err = ErrNil
    /\ saved = NoSaved
    /\ other = IdleCall
    /\ request = NoRequest
    /\ response = NoResponse
    /\ environ = <<>>
    /\ cfg = NoConfig

otherFrame == <<input, optimizer, panicked, pc, quantity, solverVars, result, err,
                saved, request, response, environ, cfg>>

\* the first goroutine calls Optimize
ConcOptimize ==
    /\ OptimizeNegative \/ OptimizeZero \/ OptimizeStart
    /\ quantity' \in SmallQuantities

ConcReturn ==
    /\ Return
    /\ saved' = saved

\* the second goroutine calls Optimize on the same optimizer
OtherOptimize ==
    /\ ~optimizer.isNil
    /\ other.pc = "idle"
    /\ \E q \in SmallQuantities : other' = CallEnter(q, optimizer.packageSizes)
    /\ UNCHANGED otherFrame

\* mutant: the dp table is one table shared by all calls, not a local
OtherStep_SharedTable ==
    /\ other.pc \in {"fill", "scan"}
    /\ other' = CallAdvance(
                   IF DOMAIN dp = DOMAIN other.dp THEN [other EXCEPT !.dp = dp] ELSE other,
                   optimizer.packageSizes)
    /\ UNCHANGED otherFrame

\* the second goroutine runs one loop iteration
OtherStep ==
    /\ other.pc \in {"fill", "scan"}
    /\ other' = CallAdvance(other, optimizer.packageSizes)
    /\ UNCHANGED otherFrame

\* the second goroutine's call returns
OtherReturn ==
    /\ other.pc = "done"
    /\ other' = IdleCall
    /\ UNCHANGED otherFrame

ConcNext ==
    \/ ConcOptimize
    \/ FillStep
    \/ BeginScan
    \/ ScanStep
    \/ Finish
    \/ ConcReturn
    \/ OtherOptimize
    \/ OtherStep
    \/ OtherReturn

SpecConc == ConcInit /\ [][ConcNext]_vars

\* ------------------------------------------------------- CalculateHandler
IsDigit(c) == \E d \in 1..10 : DigitChar[d] = c

RECURSIVE DigitsValue(_)
DigitsValue(digits) ==
    IF digits = <<>> THEN 0
    ELSE 10 * DigitsValue(SubSeq(digits, 1, Len(digits) - 1))
            + ((CHOOSE d \in 1..10 : DigitChar[d] = digits[Len(digits)]) - 1)

\* mutant: a sign with no digits after it is taken as 0
Atoi_AcceptsBareSign(str) ==
    LET signed == str # <<>> /\ Head(str) \in {"+", "-"}
        digits == IF signed THEN Tail(str) ELSE str
    IN  IF str = <<>> \/ \E j \in 1..Len(digits) : ~IsDigit(digits[j])
        THEN [ok |-> FALSE, value |-> 0]
        ELSE [ok |-> TRUE,
              value |-> IF signed /\ Head(str) = "-"
                        THEN 0 - DigitsValue(digits) ELSE DigitsValue(digits)]

\* strconv.Atoi: an optional sign followed by one or more decimal digits
Atoi(str) ==
    LET signed == str # <<>> /\ Head(str) \in {"+", "-"}
        digits == IF signed THEN Tail(str) ELSE str
    IN  IF digits = <<>> \/ \E j \in 1..Len(digits) : ~IsDigit(digits[j])
        THEN [ok |-> FALSE, value |-> 0]
        ELSE [ok |-> TRUE,
              value |-> IF signed /\ Head(str) = "-"
                        THEN 0 - DigitsValue(digits) ELSE DigitsValue(digits)]

\* the qty parameters clients send: absent, malformed, and every quantity up
\* to MaxQty in decimal, some with a sign or a leading zero
QtyStrings ==
    {<<>>, <<"x">>, <<"-">>, <<"+">>, <<"1", "x">>, <<"1", ".", "5">>, <<"-", "-", "1">>,
     <<"-", "1">>, <<"+", "1">>, <<"0", "2">>}
        \cup {Sprintf_d(q) : q \in 0..MaxQty}

HandlerInit ==
    /\ input \in {s \in Inputs : ValidatePackageSizes(s) = PanicNone /\ s = SortDesc(s)}
    /\ optimizer = MakeOptimizer(input)
    /\ panicked = PanicNone
    /\ pc = "idle"
    /\ quantity = 0
    /\ maxQuantity = 0
    /\ dp = <<>>
    /\ packageCounts = <<>>
    /\ i = 0
    /\ k = 0
    /\ bestQuantity = 0
    /\ bestOverDelivery = 0
    /\ result = NilResult
    /\ err = ErrNil
    /\ saved = NoSaved
    /\ other = IdleCall
    /\ request = NoRequest
    /\ response = NoResponse
    /\ environ = <<>>
    /\ cfg = NoConfig

\* the call's locals after Optimize has returned to the handler
LocalsReleased ==
    /\ pc' = "idle"
    /\ quantity' = 0
    /\ maxQuantity' = 0
    /\ dp' = <<>>
    /\ packageCounts' = <<>>
    /\ i' = 0
    /\ k' = 0
    /\ bestQuantity' = 0
    /\ bestOverDelivery' = 0
    /\ result' = NilResult
    /\ err' = ErrNil

\* a GET /api/calculate request arrives
ReceiveCalculate ==
    /\ ~optimizer.isNil
    /\ pc = "idle"
    /\ request.route = "none" \/ response.status # 0
    /\ \E s \in QtyStrings : request' = [route |-> "calculate", qty |-> s]
    /\ response' = NoResponse
    /\ UNCHANGED <<input, optimizer, panicked, pc, quantity, solverVars, result, err,
                   saved, environ, cfg, other>>

Serving == request.route = "calculate" /\ response.status = 0

\* lines 57-61
CalculateMissing ==
    /\ Serving
    /\ pc = "idle"
    /\ request.qty = <<>>
    /\ response' = [NoResponse EXCEPT !.status = 400,
                                      !.message = "missing 'qty' parameter"]
    /\ UNCHANGED <<input, optimizer, panicked, pc, quantity, solverVars, result, err,
                   saved, environ, cfg, other, request>>

\* lines 63-68
CalculateInvalid ==
    /\ Serving
    /\ pc = "idle"
    /\ request.qty # <<>>
    /\ ~Atoi(request.qty).ok
    /\ response' = [NoResponse EXCEPT !.status = 400,
                                      !.message = "invalid 'qty' parameter: must be an integer"]
    /\ UNCHANGED <<input, optimizer, panicked, pc, quantity, solverVars, result, err,
                   saved, environ, cfg, other, request>>

\* line 71: the handler calls h.optimizer.Optimize(quantity)
CalculateCall ==
    /\ Serving
    /\ request.qty # <<>>
    /\ Atoi(request.qty).ok
    /\ OptimizeNegative \/ OptimizeZero \/ OptimizeStart
    /\ quantity' = Atoi(request.qty).value

\* lines 72-77
CalculateError ==
    /\ Serving
    /\ pc = "done"
    /\ err # ErrNil
    /\ response' = [NoResponse EXCEPT !.status = 400,
                                      !.message = "optimization error"]
    /\ LocalsReleased
    /\ UNCHANGED <<input, optimizer, panicked, saved, environ, cfg, other, request>>

\* line 80
CalculateOK ==
    /\ Serving
    /\ pc = "done"
    /\ err = ErrNil
    /\ response' = [NoResponse EXCEPT !.status = 200, !.result = result]
    /\ LocalsReleased
    /\ UNCHANGED <<input, optimizer, panicked, saved, environ, cfg, other, request>>

HandlerNext ==
    \/ ReceiveCalculate
    \/ CalculateMissing
    \/ CalculateInvalid
    \/ CalculateCall
    \/ FillStep
    \/ BeginScan
    \/ ScanStep
    \/ Finish
    \/ CalculateError
    \/ CalculateOK

SpecHandler == HandlerInit /\ [][HandlerNext]_vars

\* ------------------------------------- the caller's list after construction
\* main keeps cfg.PackageSizes; NewHandler stores that same slice, NewOptimizer
\* is handed it too.  A later write to the slice is a value no size has.
Overwritten == MaxSize + 1

MutateInput ==
    /\ ~optimizer.isNil
    /\ \A j \in 1..Len(input) : input[j] # Overwritten
    /\ \E j \in 1..Len(input) : input' = [input EXCEPT ![j] = Overwritten]
    /\ UNCHANGED <<optimizer, panicked, pc, quantity, solverVars, result, err, saved>>
    /\ UNCHANGED extraVars

\* a GET /api/package-sizes request arrives
ReceivePackageSizes ==
    /\ ~optimizer.isNil
    /\ pc = "idle"
    /\ request = NoRequest
    /\ response = NoResponse
    /\ request' = [route |-> "package-sizes", qty |-> <<>>]
    /\ UNCHANGED <<input, optimizer, panicked, pc, quantity, solverVars, result, err,
                   saved, environ, cfg, other, response>>

\* lines 94-99: h.packageSizes is the slice main passed to NewHandler
PackageSizesHandler ==
    /\ request.route = "package-sizes"
    /\ response' = [NoResponse EXCEPT !.status = 200, !.sizes = input]
    /\ request' = NoRequest
    /\ UNCHANGED <<input, optimizer, panicked, pc, quantity, solverVars, result, err,
                   saved, environ, cfg, other>>

\* the client has read the response
ResponseSent ==
    /\ request = NoRequest
    /\ response # NoResponse
    /\ response' = NoResponse
    /\ UNCHANGED <<input, optimizer, panicked, pc, quantity, solverVars, result, err,
                   saved, environ, cfg, other, request>>

CallerOptimize ==
    /\ request = NoRequest
    /\ response = NoResponse
    /\ OptimizeNegative \/ OptimizeZero \/ OptimizeStart
    /\ quantity' \in SmallQuantities

CallerReturn ==
    /\ Return
    /\ saved' = saved

CallerNext ==
    \/ NewOptimizer
    \/ MutateInput
    \/ ReceivePackageSizes
    \/ PackageSizesHandler
    \/ ResponseSent
    \/ CallerOptimize
    \/ FillStep
    \/ BeginScan
    \/ ScanStep
    \/ Finish
    \/ CallerReturn

SpecCaller == Init /\ [][CallerNext]_vars

\* ------------------------------------------------------------ config.Load
\* the characters a PACKAGE_SIZES value is written with
EnvChars == {"0", "1", "2", "-", ",", " ", "x"}

EnvStrings == SeqsUpTo(EnvChars, MaxEnvLen)

\* the default of getEnv("PACKAGE_SIZES", ...): "250,500,1000,2000"
DefaultPackageSizes ==
    <<"2", "5", "0", ",", "5", "0", "0", ",", "1", "0", "0", "0", ",", "2", "0", "0", "0">>

getEnv(value, defaultValue) == IF value # <<>> THEN value ELSE defaultValue

\* strings.Split(s, ",")
RECURSIVE Split(_)
Split(str) ==
    IF \A j \in 1..Len(str) : str[j] # ","
    THEN <<str>>
    ELSE LET p == CHOOSE j \in 1..Len(str) :
                      str[j] = "," /\ \A h \in 1..(j - 1) : str[h] # ","
         IN  <<SubSeq(str, 1, p - 1)>> \o Split(SubSeq(str, p + 1, Len(str)))

\* strings.TrimSpace
RECURSIVE TrimSpace(_)
TrimSpace(str) ==
    IF str = <<>> THEN <<>>
    ELSE IF Head(str) = " " THEN TrimSpace(Tail(str))
    ELSE IF str[Len(str)] = " " THEN TrimSpace(SubSeq(str, 1, Len(str) - 1))
    ELSE str

ErrEmptySizes == "package sizes cannot be empty"
ErrInvalidSize == "invalid package size"
ErrNonPositiveSize == "package size must be positive"
ErrNoSizes == "no valid package sizes found"

\* mutant: only negative sizes are refused
RECURSIVE ParseLoop_AllowsZero(_, _)
ParseLoop_AllowsZero(sizes, parsed) ==
    IF sizes = <<>>
    THEN IF Len(parsed) = 0
         THEN [sizes |-> <<>>, err |-> ErrNoSizes]
         ELSE [sizes |-> parsed, err |-> ErrNil]
    ELSE LET sizeStr == TrimSpace(Head(sizes))
         IN  IF sizeStr = <<>> THEN ParseLoop_AllowsZero(Tail(sizes), parsed)
             ELSE IF ~Atoi(sizeStr).ok THEN [sizes |-> <<>>, err |-> ErrInvalidSize]
             ELSE IF Atoi(sizeStr).value < 0 THEN [sizes |-> <<>>, err |-> ErrNonPositiveSize]
             ELSE ParseLoop_AllowsZero(Tail(sizes), Append(parsed, Atoi(sizeStr).value))

\* lines 102-132: the range loop over the split fields, then the length test
RECURSIVE ParseLoop(_, _)
ParseLoop(sizes, parsed) ==
    IF sizes = <<>>
    THEN IF Len(parsed) = 0
         THEN [sizes |-> <<>>, err |-> ErrNoSizes]
         ELSE [sizes |-> parsed, err |-> ErrNil]
    ELSE LET sizeStr == TrimSpace(Head(sizes))
         IN  IF sizeStr = <<>> THEN ParseLoop(Tail(sizes), parsed)
             ELSE IF ~Atoi(sizeStr).ok THEN [sizes |-> <<>>, err |-> ErrInvalidSize]
             ELSE IF Atoi(sizeStr).value <= 0 THEN [sizes |-> <<>>, err |-> ErrNonPositiveSize]
             ELSE ParseLoop(Tail(sizes), Append(parsed, Atoi(sizeStr).value))

parsePackageSizes(sizesStr) ==
    IF sizesStr = <<>>
    THEN [sizes |-> <<>>, err |-> ErrEmptySizes]
    ELSE ParseLoop(Split(sizesStr), <<>>)

Load(value) ==
    LET packageSizesStr == getEnv(value, DefaultPackageSizes)
        parsed == parsePackageSizes(packageSizesStr)
    IN  IF parsed.err # ErrNil
        THEN [loaded |-> TRUE, isNil |-> TRUE, PackageSizes |-> <<>>,
              err |-> <<"invalid package sizes", parsed.err>>]
        ELSE [loaded |-> TRUE, isNil |-> FALSE, PackageSizes |-> parsed.sizes,
              err |-> ErrNil]

ConfigInit ==
    /\ environ \in EnvStrings
    /\ cfg = NoConfig
    /\ input = <<>>
    /\ optimizer = NilOptimizer
    /\ panicked = PanicNone
    /\ pc = "idle"
    /\ quantity = 0
    /\ maxQuantity = 0
    /\ dp = <<>>
    /\ packageCounts = <<>>
    /\ i = 0
    /\ k = 0
    /\ bestQuantity = 0
    /\ bestOverDelivery = 0
    /\ result = NilResult
    /\ err = ErrNil
    /\ saved = NoSaved
    /\ other = IdleCall
    /\ request = NoRequest
    /\ response = NoResponse

\* main: cfg, err := config.Load(); cfg.PackageSizes is the slice main holds
LoadConfig ==
    /\ ~cfg.loaded
    /\ cfg' = Load(environ)
    /\ input' = cfg'.PackageSizes
    /\ UNCHANGED <<optimizer, panicked, pc, quantity, solverVars, result, err, saved,
                   other, request, response, environ>>

\* main: log.Fatalf on a load error, else domain.NewOptimizer(cfg.PackageSizes)
StartOptimizer ==
    /\ cfg.loaded
    /\ cfg.err = ErrNil
    /\ NewOptimizer

ConfigNext ==
    \/ LoadConfig
    \/ StartOptimizer

SpecConfig == ConfigInit /\ [][ConfigNext]_vars

\* ------------------------------------------------- reference definitions
\* the sizes of a catalog, as a set
SizeSet(sizes) == {sizes[j] : j \in 1..Len(sizes)}

\* the sums of exactly n packages of the catalog, up to limit
RECURSIVE SumsOf(_, _, _)
SumsOf(sizes, n, limit) ==
    IF n = 0 THEN {0}
    ELSE {x + s : x \in SumsOf(sizes, n - 1, limit), s \in SizeSet(sizes)} \cap (0..limit)

\* D is a non-negative integer combination of catalog sizes
Achievable(sizes, D) == \E n \in 0..D : D \in SumsOf(sizes, n, D)

\* the value of a decimal digit string
DigitValue(c) == CHOOSE d \in 0..9 : DigitChar[d + 1] = c

RECURSIVE ParseDecimal(_)
ParseDecimal(str) ==
    IF str = <<>> THEN 0
    ELSE IF Head(str) = "-" THEN 0 - ParseDecimal(Tail(str))
    ELSE 10 * ParseDecimal(SubSeq(str, 1, Len(str) - 1)) + DigitValue(str[Len(str)])

\* sum over the keys of a packages mapping of size x count
RECURSIVE DeliveredBy(_, _)
DeliveredBy(entries, keys) ==
    IF keys = {} THEN 0
    ELSE LET key == CHOOSE x \in keys : TRUE
         IN  ParseDecimal(key) * entries[key] + DeliveredBy(entries, keys \ {key})

\* total number of packages of a packages mapping
RECURSIVE CountOf(_, _)
CountOf(entries, keys) ==
    IF keys = {} THEN 0
    ELSE LET key == CHOOSE x \in keys : TRUE
         IN  entries[key] + CountOf(entries, keys \ {key})

Catalog == optimizer.packageSizes

Succeeded == pc = "done" /\ err = ErrNil

Entries == result.Packages.entries

InvalidInput(sizes) == Len(sizes) = 0 \/ \E j \in 1..Len(sizes) : sizes[j] <= 0

\* how many times x occurs in a sequence
Occurrences(s, x) == Cardinality({j \in 1..Len(s) : s[j] = x})

\* ------------------------------------------------------------------ claims

\* C1: every Optimize call with quantity >= 0 returns a result with
\* requested = quantity, total_delivered >= quantity and
\* over_delivery = total_delivered - requested >= 0.
C1_DeliversAtLeastRequested ==
    (pc = "done" /\ quantity >= 0) =>
        /\ err = ErrNil
        /\ ~result.isNil
        /\ result.Requested = quantity
        /\ result.TotalDelivered >= quantity
        /\ result.OverDelivery = result.TotalDelivered - result.Requested
        /\ result.OverDelivery >= 0

C1_Witness ==
    /\ Succeeded
    /\ quantity > 0
    /\ result.OverDelivery > 0

\* C2: for quantity > 0 the returned total_delivered is the smallest value
\* D >= quantity that is a non-negative integer combination of catalog sizes.
C2_PrimaryOptimality ==
    (Succeeded /\ quantity > 0) =>
        /\ Achievable(Catalog, result.TotalDelivered)
        /\ result.TotalDelivered >= quantity
        /\ \A D \in quantity..(result.TotalDelivered - 1) : ~Achievable(Catalog, D)

C2_Witness ==
    /\ Succeeded
    /\ quantity > 0
    /\ ~Achievable(Catalog, quantity)
    /\ result.TotalDelivered > quantity + 1

\* C3: for quantity > 0 no combination of catalog sizes with the same sum as
\* the returned result uses strictly fewer packages than the returned mapping.
C3_SecondaryOptimality ==
    (Succeeded /\ quantity > 0) =>
        \A n \in 0..(CountOf(Entries, DOMAIN Entries) - 1) :
            result.TotalDelivered \notin SumsOf(Catalog, n, result.TotalDelivered)

\* C4: the returned packages mapping is a breakdown of total_delivered: every
\* key is the decimal rendering of a catalog size, distinct keys name distinct
\* sizes, every count is >= 1 and size x count sums to total_delivered.
C4_PackagesAreBreakdown ==
    Succeeded =>
        /\ ~result.Packages.isNil
        /\ \A key \in DOMAIN Entries :
            /\ ParseDecimal(key) \in SizeSet(Catalog)
            /\ Sprintf_d(ParseDecimal(key)) = key
            /\ Entries[key] >= 1
        /\ \A a, b \in DOMAIN Entries : ParseDecimal(a) = ParseDecimal(b) => a = b
        /\ DeliveredBy(Entries, DOMAIN Entries) = result.TotalDelivered

C4_Witness ==
    /\ Succeeded
    /\ Cardinality(DOMAIN Entries) >= 2
    /\ \E key \in DOMAIN Entries : Entries[key] >= 2

\* C5: Optimize(0) returns requested = 0, total_delivered = 0,
\* over_delivery = 0 and a present, empty packages mapping with no DP table
\* allocated; a successful call's mapping is empty iff requested = 0.
C5_ZeroQuantity ==
    /\ (pc = "done" /\ quantity = 0) =>
        /\ err = ErrNil
        /\ result = [isNil |-> FALSE, Requested |-> 0, TotalDelivered |-> 0,
                     OverDelivery |-> 0,
                     Packages |-> [isNil |-> FALSE, entries |-> <<>>]]
        /\ dp = <<>>
        /\ packageCounts = <<>>
    /\ Succeeded => ((DOMAIN Entries = {}) <=> (result.Requested = 0))

C5_Witness ==
    /\ Succeeded
    /\ quantity = 0
    /\ DOMAIN Entries = {}

\* C6: Optimize with quantity < 0 returns an error and a nil result, runs no
\* DP and leaves the catalog unchanged; once the failed call has returned the
\* optimizer and the call's locals are exactly as before it, so every later
\* call behaves as if the failed call had never happened.
IdleLocals ==
    /\ quantity = 0
    /\ maxQuantity = 0
    /\ dp = <<>>
    /\ packageCounts = <<>>
    /\ i = 0
    /\ k = 0
    /\ bestQuantity = 0
    /\ bestOverDelivery = 0
    /\ result = NilResult
    /\ err = ErrNil

C6_NegativeState ==
    /\ pc = "idle" => IdleLocals
    /\ (pc = "done" /\ quantity < 0) =>
        /\ err # ErrNil
        /\ result.isNil
        /\ maxQuantity = 0
        /\ dp = <<>>
        /\ packageCounts = <<>>

C6_NegativeStep ==
    /\ (pc = "idle" /\ pc' # "idle" /\ quantity' < 0) =>
        /\ pc' = "done"
        /\ optimizer' = optimizer
        /\ input' = input
        /\ saved' = saved
        /\ UNCHANGED solverVars
    /\ (pc = "done" /\ quantity < 0 /\ pc' # "done") =>
        /\ pc' = "idle"
        /\ optimizer' = optimizer
        /\ input' = input
        /\ IdleLocals'

C6_NegativeQuantity == [](C6_NegativeState) /\ [][C6_NegativeStep]_vars

C6_Witness ==
    /\ pc = "done"
    /\ quantity < 0
    /\ result.isNil
    /\ err = ErrNegative
    /\ saved.valid
    /\ ~saved.result.isNil

\* C7: NewOptimizer panics, leaving no optimizer, exactly when the input is
\* empty or has an element <= 0; every other input yields an optimizer.
C7_ConstructionStep ==
    (optimizer.isNil /\ panicked = PanicNone
        /\ (optimizer' # optimizer \/ panicked' # panicked)) =>
        /\ (panicked' # PanicNone) <=> InvalidInput(input)
        /\ optimizer'.isNil <=> InvalidInput(input)

C7_ConstructionFailsIffInvalid == [][C7_ConstructionStep]_vars

C7_Witness ==
    /\ panicked = PanicNonPositive
    /\ optimizer.isNil
    /\ \E j \in 1..Len(input) : input[j] > 0

\* C8: the catalog of a constructed optimizer is sorted in descending order and
\* its first element is the maximum size M that bounds the DP table.
C8_CatalogSortedDescending ==
    ~optimizer.isNil =>
        /\ \A j \in 1..(Len(Catalog) - 1) : Catalog[j] >= Catalog[j + 1]
        /\ \A s \in SizeSet(Catalog) : s <= Catalog[1]
        /\ pc \in {"fill", "scan"} =>
            /\ maxQuantity = quantity + Catalog[1]
            /\ DOMAIN dp = 0..maxQuantity

C8_Witness ==
    /\ ~optimizer.isNil
    /\ Len(input) >= 3
    /\ input[1] < input[2]
    /\ input[3] < input[2]
    /\ input[1] < input[3]
    /\ pc = "fill"

\* C9 (as stated): a constructed catalog contains no duplicate sizes.
C9_NoDuplicates ==
    ~optimizer.isNil =>
        \A a, b \in 1..Len(Catalog) : Catalog[a] = Catalog[b] => a = b

\* C9 (amended): construction accepts an input that repeats a size and keeps
\* every repetition: each size occurs in the catalog as often as in the input.
C9_KeepsStep ==
    (optimizer.isNil /\ ~optimizer'.isNil) =>
        /\ Len(optimizer'.packageSizes) = Len(input)
        /\ \A x \in SizeSet(input) \cup SizeSet(optimizer'.packageSizes) :
            Occurrences(optimizer'.packageSizes, x) = Occurrences(input, x)

C9_KeepsDuplicates == [][C9_KeepsStep]_vars

C9_Witness ==
    /\ ~optimizer.isNil
    /\ \E a, b \in 1..Len(Catalog) : a # b /\ Catalog[a] = Catalog[b]
    /\ Cardinality(SizeSet(Catalog)) >= 2

\* C10: two Optimize calls with the same catalog and quantity, with any calls
\* in between, return identical results or both fail.
C10_Determinism ==
    (pc = "done" /\ saved.valid /\ saved.quantity = quantity) =>
        /\ result = saved.result
        /\ err = saved.err

C10_Witness ==
    /\ Succeeded
    /\ saved.valid
    /\ saved.quantity = quantity
    /\ Cardinality(DOMAIN Entries) >= 2
    /\ result.OverDelivery > 0

\* C11: for quantity > 0 the returned over_delivery is at most M - 1, M the
\* maximum catalog size, so total_delivered lies in quantity..quantity + M.
MaxSizeOf(sizes) == CHOOSE s \in SizeSet(sizes) : \A t \in SizeSet(sizes) : t <= s

C11_OverDeliveryBelowMax ==
    (Succeeded /\ quantity > 0) =>
        /\ result.OverDelivery <= MaxSizeOf(Catalog) - 1
        /\ result.TotalDelivered \in quantity..(quantity + MaxSizeOf(Catalog))

C11_Witness ==
    /\ Succeeded
    /\ quantity > 0
    /\ Len(Catalog) >= 2
    /\ result.OverDelivery = Catalog[1] - 1
    /\ result.OverDelivery >= 2

\* total number of packages of a breakdown
RECURSIVE TotalPackages(_)
TotalPackages(pkgs) ==
    IF pkgs = <<>> THEN 0 ELSE Head(pkgs).Count + TotalPackages(Tail(pkgs))

\* a step of the fill loop for entry i and the k-th size
InFillStep == pc = "fill" /\ pc' = "fill" /\ i <= maxQuantity

\* C15: while filling entry i the sizes are tried in descending order, and a
\* breakdown stored for i is never overwritten by a later candidate with the
\* same over-delivery and the same total number of packages.
C15_Step ==
    InFillStep =>
        /\ (i' = i) => (k' = k + 1 /\ Catalog[k'] <= Catalog[k])
        /\ (Reachable(i) /\ packageCounts'[i] # packageCounts[i]) =>
            ~(/\ dp'[i] = dp[i]
              /\ TotalPackages(packageCounts'[i]) = TotalPackages(packageCounts[i]))

C15_FirstFoundWins == [][C15_Step]_vars

\* the package size tried by the current fill step
CurrentSize == Catalog[k]

\* C16: entry i is updated from a reachable entry i - s exactly when the
\* candidate over-delivery is strictly smaller than dp[i], or equal while the
\* candidate's total number of packages is strictly smaller than the total
\* number of packages stored for i.
C16_Step ==
    InFillStep =>
        ((dp'[i] # dp[i] \/ packageCounts'[i] # packageCounts[i])
            <=> /\ CurrentSize <= i
                /\ Reachable(i - CurrentSize)
                /\ LET candidate == dp[i - CurrentSize] + max(0, i - quantity)
                   IN  \/ candidate < dp[i]
                       \/ /\ candidate = dp[i]
                          /\ TotalPackages(packageCounts[i - CurrentSize]) + 1
                                < TotalPackages(packageCounts[i]))

C16_UpdateRule == [][C16_Step]_vars

\* the table as findOptimalSolution leaves it when the fill loop has ended
TableFilled == pc = "scan"

\* C17: after the fill, entry i of 0..quantity+M differs from the sentinel
\* quantity+M+1 iff i is a non-negative integer combination of catalog sizes;
\* entry 0 is reachable with zero packages and zero over-delivery.
C17_ReachableIffAchievable ==
    TableFilled =>
        /\ DOMAIN dp = 0..(quantity + MaxSizeOf(Catalog))
        /\ dp[0] = 0
        /\ packageCounts[0] = <<>>
        /\ \A n \in DOMAIN dp :
            (dp[n] # quantity + MaxSizeOf(Catalog) + 1) <=> Achievable(Catalog, n)

\* C18: after the fill, every reachable entry i holds the over-delivery of
\* delivering exactly i, dp[i] = max(0, i - quantity).
C18_EntryIsOverDelivery ==
    TableFilled =>
        \A n \in DOMAIN dp :
            Reachable(n) => dp[n] = (IF n > quantity THEN n - quantity ELSE 0)

\* how many packages of size x a breakdown holds
CountIn(pkgs, x) ==
    IF \E j \in 1..Len(pkgs) : pkgs[j].Size = x
    THEN pkgs[CHOOSE j \in 1..Len(pkgs) : pkgs[j].Size = x].Count
    ELSE 0

RECURSIVE BreakdownSum(_)
BreakdownSum(pkgs) ==
    IF pkgs = <<>> THEN 0
    ELSE Head(pkgs).Size * Head(pkgs).Count + BreakdownSum(Tail(pkgs))

\* sizes pairwise distinct and from the catalog, counts >= 1, sum n
ValidBreakdown(pkgs, n) ==
    /\ \A a, b \in 1..Len(pkgs) : pkgs[a].Size = pkgs[b].Size => a = b
    /\ \A a \in 1..Len(pkgs) : pkgs[a].Size \in SizeSet(Catalog) /\ pkgs[a].Count >= 1
    /\ BreakdownSum(pkgs) = n

\* C19: during the fill the breakdown of every reachable entry i has distinct
\* catalog sizes, counts >= 1 and sums to i; an update of entry i stores the
\* breakdown of entry i - s with one more package of size s and changes no
\* other entry.
C19_State ==
    pc \in {"fill", "scan"} =>
        \A n \in DOMAIN dp : Reachable(n) => ValidBreakdown(packageCounts[n], n)

C19_Step ==
    InFillStep =>
        /\ \A n \in DOMAIN dp \ {i} :
            dp'[n] = dp[n] /\ packageCounts'[n] = packageCounts[n]
        /\ packageCounts'[i] # packageCounts[i] =>
            /\ \A j \in 1..Len(packageCounts[i - CurrentSize]) :
                packageCounts'[i][j].Size = packageCounts[i - CurrentSize][j].Size
            /\ \A x \in SizeSet(Catalog) :
                CountIn(packageCounts'[i], x) =
                    CountIn(packageCounts[i - CurrentSize], x)
                        + (IF x = CurrentSize THEN 1 ELSE 0)
            /\ TotalPackages(packageCounts'[i]) =
                    TotalPackages(packageCounts[i - CurrentSize]) + 1

C19_BreakdownInvariant == [](C19_State) /\ [][C19_Step]_vars

C19_Witness ==
    /\ pc = "fill"
    /\ i > quantity
    /\ i <= maxQuantity
    /\ Reachable(i)
    /\ Len(packageCounts[i]) >= 2
    /\ \E j \in 1..Len(packageCounts[i]) : packageCounts[i][j].Count >= 2

\* C12: Optimize calls running concurrently on one optimizer never write the
\* catalog and share no DP state: under every interleaving each call returns
\* what it returns when run alone.
C12_State ==
    /\ pc = "done" =>
        [result |-> result, err |-> err] = OptimizeAlone(quantity, Catalog)
    /\ other.pc = "done" =>
        [result |-> other.result, err |-> other.err] = OptimizeAlone(other.quantity, Catalog)

C12_Step ==
    /\ optimizer' = optimizer
    /\ other' # other => UNCHANGED <<pc, quantity, solverVars, result, err>>
    /\ <<pc, quantity, solverVars, result, err>>' # <<pc, quantity, solverVars, result, err>>
          => other' = other

C12_ConcurrentCallsIndependent == [](C12_State) /\ [][C12_Step]_vars

C12_Witness ==
    /\ pc = "done"
    /\ other.pc = "done"
    /\ quantity > 0
    /\ other.quantity > 0
    /\ quantity # other.quantity
    /\ result.OverDelivery > 0
    /\ other.result.OverDelivery = 0
    /\ other.result.TotalDelivered = other.quantity

\* an optional sign followed by at least one decimal digit
IsIntegerLiteral(str) ==
    \E start \in 1..2 :
        /\ start = 2 => (Len(str) >= 1 /\ str[1] \in {"+", "-"})
        /\ Len(str) >= start
        /\ \A j \in start..Len(str) : str[j] \in {"0", "1", "2", "3", "4", "5", "6", "7", "8", "9"}

LiteralValue(str) ==
    IF str[1] = "-" THEN 0 - ParseDecimal(Tail(str))
    ELSE IF str[1] = "+" THEN ParseDecimal(Tail(str))
    ELSE ParseDecimal(str)

Answered == request.route = "calculate" /\ response.status # 0

\* C13: the calculate handler answers 400 without calling the optimizer when
\* qty is missing or is not an integer, 400 when the optimizer returns an
\* error, and 200 with the optimizer's result in every other case.
C13_HandlerStatus ==
    /\ (request.route = "calculate" /\ ~IsIntegerLiteral(request.qty)) =>
        /\ pc = "idle"
        /\ response.status \in {0, 400}
    /\ (Answered /\ IsIntegerLiteral(request.qty) /\ LiteralValue(request.qty) < 0) =>
        /\ response.status = 400
        /\ response.result.isNil
    /\ (Answered /\ IsIntegerLiteral(request.qty) /\ LiteralValue(request.qty) >= 0) =>
        /\ response.status = 200
        /\ response.result = OptimizeAlone(LiteralValue(request.qty), Catalog).result
        /\ ~response.result.isNil
    /\ (request.route = "calculate" /\ pc # "idle") =>
        quantity = LiteralValue(request.qty)

C13_Witness ==
    /\ Answered
    /\ response.status = 200
    /\ Len(request.qty) = 2
    /\ response.result.OverDelivery > 0

\* C14: there is a maximum quantity above which the calculate handler
\* rejects the request and Optimize is never called; with requests up to
\* MaxQty, the largest one at least is turned away.
C14_UpperBoundEnforced ==
    /\ pc # "idle" => quantity < MaxQty
    /\ (Answered /\ IsIntegerLiteral(request.qty) /\ LiteralValue(request.qty) >= MaxQty) =>
        response.status = 400

InputOverwritten == \E j \in 1..Len(input) : input[j] = Overwritten

C20_State ==
    /\ (~optimizer.isNil /\ ~InputOverwritten) => Catalog = SortDesc(input)
    /\ ~optimizer.isNil => \A j \in 1..Len(Catalog) : Catalog[j] # Overwritten
    /\ pc = "done" =>
        [result |-> result, err |-> err] = OptimizeAlone(quantity, Catalog)
    /\ (response.status = 200 /\ \A j \in 1..Len(response.sizes) : response.sizes[j] # Overwritten)
        => Catalog = SortDesc(response.sizes)

C20_Step ==
    /\ (optimizer.isNil /\ ~optimizer'.isNil) =>
        /\ input' = input
        /\ optimizer'.packageSizes = SortDesc(input)
    /\ ~optimizer.isNil => optimizer' = optimizer
    /\ input' # input =>
        UNCHANGED <<optimizer, pc, quantity, solverVars, result, err>>
    /\ (request.route = "package-sizes" /\ response' # response /\ response'.status = 200) =>
        response'.sizes = input

\* C20: NewOptimizer sorts a private copy: the caller's list keeps its order
\* and contents after construction, the package-sizes endpoint reports the
\* caller's list, and no later write to that list changes the catalog or any
\* Optimize result.
C20_PrivateCopy == [](C20_State) /\ [][C20_Step]_vars

C20_Witness ==
    /\ InputOverwritten
    /\ pc = "done"
    /\ quantity > 0
    /\ result.OverDelivery > 0
    /\ input # SortDesc(input)
    /\ \E j \in 1..Len(input) : input[j] # Overwritten /\ input[j] # Catalog[j]

\* the string Load hands to parsePackageSizes
ParsedString == IF Len(environ) = 0 THEN DefaultPackageSizes ELSE environ

\* positions c..d of str hold one comma-separated entry without the blanks
\* around it
IsEntry(str, c, d) ==
    /\ c <= d
    /\ str[c] # " "
    /\ str[d] # " "
    /\ \A j \in c..d : str[j] # ","
    /\ \E a \in 1..c :
        /\ a = 1 \/ str[a - 1] = ","
        /\ \A j \in a..(c - 1) : str[j] = " "
    /\ \E b \in d..Len(str) :
        /\ b = Len(str) \/ str[b + 1] = ","
        /\ \A j \in (d + 1)..b : str[j] = " "

YieldsEmptyList(str) == \A j \in 1..Len(str) : str[j] \in {",", " "}

YieldsNonPositiveSize(str) ==
    \E c \in 1..Len(str), d \in 1..Len(str) :
        /\ IsEntry(str, c, d)
        /\ IsIntegerLiteral(SubSeq(str, c, d))
        /\ LiteralValue(SubSeq(str, c, d)) <= 0

\* C21: whenever Load succeeds the parsed list is non-empty with every
\* element > 0, so the NewOptimizer call main makes with it never panics;
\* every string that would yield an empty list or a non-positive size makes
\* Load return an error instead.
C21_LoadedSizesValid ==
    /\ panicked = PanicNone
    /\ (cfg.loaded /\ cfg.err = ErrNil) =>
        /\ ~cfg.isNil
        /\ Len(cfg.PackageSizes) > 0
        /\ \A j \in 1..Len(cfg.PackageSizes) : cfg.PackageSizes[j] > 0
        /\ input = cfg.PackageSizes
    /\ (cfg.loaded /\ (YieldsEmptyList(ParsedString) \/ YieldsNonPositiveSize(ParsedString))) =>
        /\ cfg.err # ErrNil
        /\ cfg.isNil
        /\ optimizer.isNil
    /\ (cfg.loaded /\ Len(environ) = 0) => cfg.PackageSizes = <<250, 500, 1000, 2000>>
    /\ ~optimizer.isNil =>
        /\ cfg.loaded
        /\ cfg.err = ErrNil
        /\ Catalog = SortDesc(cfg.PackageSizes)

C21_Witness ==
    /\ ~optimizer.isNil
    /\ cfg.err = ErrNil
    /\ Len(cfg.PackageSizes) = 2
    /\ Catalog # cfg.PackageSizes
    /\ \E j \in 1..Len(environ) : environ[j] = " "

====
